---- MODULE Spec2Model ----
(***************************************************************************)
(* autofan: a periodic fan controller (src/main.go).                        *)
(*                                                                          *)
(* main() loads the configuration and calls work(); work() starts a ticker  *)
(* and one goroutine that runs a control cycle for every value received     *)
(* from ticker.C, while the calling goroutine blocks on the interrupt       *)
(* signal and returns (ending the process) when it arrives.                 *)
(*                                                                          *)
(* Numbers: sensor readings and the temperature bounds are drawn from small *)
(* integers.  The aggregated temperature is a float64 in the code; the mean *)
(* of integers is modelled exactly as a reduced fraction [n, d], which      *)
(* agrees with float64 equality on these inputs (the quotient of two small  *)
(* integers is correctly rounded, so equal rationals give equal floats and  *)
(* different ones different floats).  The set-point is computed from it in  *)
(* float64, operation by operation with the rounding of each, and then      *)
(* converted to int as the code does.                                       *)
(*                                                                          *)
(* Spec is the whole program.  TickSpec adds the ticks the runtime drops,   *)
(* FnSpec follows one cycle from a given configuration and provider output, *)
(* and TwinSpec makes each cycle twice, for two runs that differ in the fan *)
(* readings.                                                                *)
(***************************************************************************)
EXTENDS Integers, Sequences, FiniteSets

(***************************************************************************)
(* Bounds of the model.                                                     *)
(***************************************************************************)
\* longest list of features the sensor provider reports in one cycle
MaxReadings == 2
\* the history counter of started cycles saturates here
MaxCycles == 3

(***************************************************************************)
(* Strings that the code inspects are sequences of one-character strings.   *)
(***************************************************************************)
Core0 == <<"c", "0">>
Core1 == <<"c", "1">>
FanName == <<"f">>
FanNamePadded == <<"f", " ">>

\* composed names "chip:label" the provider can report: two temperature
\* sensors, and the fan with and without padding
TempNames == {Core0, Core1}
FanNames == {FanName, FanNamePadded}
\* values a temperature feature and a fan feature can report
SensorValues == {0, 50}
FanValues == {2000}

Reading == [name : TempNames, value : SensorValues]
               \cup [name : FanNames, value : FanValues]

RECURSIVE SeqsUpTo(_, _)
SeqsUpTo(S, n) ==
    IF n = 0 THEN {<<>>}
    ELSE LET shorter == SeqsUpTo(S, n - 1)
         IN  shorter \cup {Append(s, x) : s \in {t \in shorter : Len(t) = n - 1}, x \in S}

\* what gosensors.GetDetectedChips()/GetFeatures() may yield in one pass
ProviderOutputs == SeqsUpTo(Reading, MaxReadings)

\* the single-cycle specification examines one provider output at a time and
\* draws the temperature values from a wider set: below zero, zero, between
\* the bounds and at a bound
FnValues == {-10, 0, 50, 60}
FnReading == [name : TempNames, value : FnValues]
                 \cup [name : FanNames, value : FanValues]
FnOutputs == SeqsUpTo(FnReading, MaxReadings)

(***************************************************************************)
(* Arithmetic helpers.                                                      *)
(***************************************************************************)
Abs(x) == IF x < 0 THEN -x ELSE x

RECURSIVE Gcd(_, _)
Gcd(a, b) == IF b = 0 THEN a ELSE Gcd(b, a % b)

\* the float64 quotient num / den (den > 0) as a reduced fraction
Frac(num, den) ==
    LET g == Gcd(Abs(num), den)
    IN  [n |-> num \div g, d |-> den \div g]

\* int() of the rational num / den (den > 0): truncation toward zero
Trunc(num, den) == IF num >= 0 THEN num \div den ELSE -((-num) \div den)

\* stand-ins for math.MaxInt64 and math.MinInt64 within TLC's 32-bit integers;
\* they are only ever written out, never computed with
IntMax == 2147483647
IntMin == -2147483647

(***************************************************************************)
(* float64 arithmetic.  A natural number of any size is a sequence of bits, *)
(* least significant first, without leading zero bits (zero is <<>>).  A    *)
(* float64 is [neg, m, e]: the value (-1)^neg * m * 2^e with m < 2^53 + 1   *)
(* odd or zero.  Only finite, normal values occur.                          *)
(***************************************************************************)
RECURSIVE BigOfNat(_)
BigOfNat(k) == IF k = 0 THEN <<>> ELSE <<k % 2>> \o BigOfNat(k \div 2)

RECURSIVE BigToNat(_)
BigToNat(b) == IF b = <<>> THEN 0 ELSE b[1] + 2 * BigToNat(Tail(b))

RECURSIVE BigNorm(_)
BigNorm(b) ==
    IF b # <<>> /\ b[Len(b)] = 0 THEN BigNorm(SubSeq(b, 1, Len(b) - 1)) ELSE b

Zeros(k) == [i \in 1..k |-> 0]

BigShl(b, k) == IF b = <<>> THEN <<>> ELSE Zeros(k) \o b

BigShr(b, k) == SubSeq(b, k + 1, Len(b))

RECURSIVE BigAddC(_, _, _)
BigAddC(a, b, carry) ==
    IF a = <<>> /\ b = <<>> THEN (IF carry = 1 THEN <<1>> ELSE <<>>)
    ELSE LET x == IF a = <<>> THEN 0 ELSE a[1]
             y == IF b = <<>> THEN 0 ELSE b[1]
             s == x + y + carry
         IN  <<s % 2>> \o BigAddC(IF a = <<>> THEN a ELSE Tail(a),
                                  IF b = <<>> THEN b ELSE Tail(b), s \div 2)

BigAdd(a, b) == BigAddC(a, b, 0)

\* a - b for a >= b
RECURSIVE BigSubB(_, _, _)
BigSubB(a, b, borrow) ==
    IF a = <<>> THEN <<>>
    ELSE LET y == IF b = <<>> THEN 0 ELSE b[1]
             s == a[1] - y - borrow
         IN  <<s % 2>> \o BigSubB(Tail(a), IF b = <<>> THEN b ELSE Tail(b),
                                  IF s < 0 THEN 1 ELSE 0)

BigSub(a, b) == BigNorm(BigSubB(a, b, 0))

RECURSIVE BigLessFrom(_, _, _)
BigLessFrom(a, b, i) ==
    IF i = 0 THEN FALSE
    ELSE IF a[i] # b[i] THEN a[i] < b[i]
    ELSE BigLessFrom(a, b, i - 1)

BigLess(a, b) ==
    IF Len(a) # Len(b) THEN Len(a) < Len(b) ELSE BigLessFrom(a, b, Len(a))

RECURSIVE BigMul(_, _)
BigMul(a, b) ==
    IF a = <<>> \/ b = <<>> THEN <<>>
    ELSE LET rest == BigShl(BigMul(a, Tail(b)), 1)
         IN  IF b[1] = 1 THEN BigAdd(a, rest) ELSE rest

\* the bits of floor(num * 2^k / den), most significant first, followed by
\* the final remainder; rem < den throughout
RECURSIVE DivBits(_, _, _, _)
DivBits(numBits, k, den, rem) ==
    IF numBits = <<>> /\ k = 0 THEN <<rem>>
    ELSE LET bit == IF numBits = <<>> THEN 0 ELSE numBits[Len(numBits)]
             r == 2 * rem + bit
             q == IF r >= den THEN 1 ELSE 0
         IN  <<q>> \o DivBits(IF numBits = <<>> THEN numBits
                               ELSE SubSeq(numBits, 1, Len(numBits) - 1),
                              IF numBits = <<>> THEN k - 1 ELSE k,
                              den, r - q * den)

Reverse(s) == [i \in 1..Len(s) |-> s[Len(s) + 1 - i]]

\* number of low zero bits of a non-zero b
RECURSIVE LowZeros(_)
LowZeros(b) == IF b[1] = 1 THEN 0 ELSE 1 + LowZeros(Tail(b))

FZero == [neg |-> FALSE, m |-> <<>>, e |-> 0]

\* canonical form: odd mantissa
FCanon(neg, m, e) ==
    IF m = <<>> THEN FZero
    ELSE LET z == LowZeros(m)
         IN  [neg |-> neg, m |-> BigShr(m, z), e |-> e + z]

\* round (-1)^neg * (m + s) * 2^e, where 0 <= s < 1 and sticky says s > 0,
\* to 53 significant bits, ties to even
FRound(neg, m, e, sticky) ==
    IF Len(m) <= 53 THEN FCanon(neg, m, e)
    ELSE LET t == Len(m) - 53
             kept == BigShr(m, t)
             guard == m[t]
             below == sticky \/ \E i \in 1..(t - 1) : m[i] = 1
             up == guard = 1 /\ (below \/ kept[1] = 1)
         IN  FCanon(neg, IF up THEN BigAdd(kept, <<1>>) ELSE kept, e + t)

\* float64(k) for an integer k of small magnitude
FOfInt(k) == FCanon(k < 0, BigOfNat(IF k < 0 THEN -k ELSE k), 0)

\* the float64 quotient a / b of two integers of small magnitude, b # 0
FDivInt(a, b) ==
    IF a = 0 THEN FZero
    ELSE LET na == IF a < 0 THEN -a ELSE a
             nb == IF b < 0 THEN -b ELSE b
             out == DivBits(BigOfNat(na), 64, nb, 0)
             q == BigNorm(Reverse(SubSeq(out, 1, Len(out) - 1)))
         IN  FRound((a < 0) # (b < 0), q, -64, out[Len(out)] # 0)

\* the exact sum x + y as [neg, m, e], not rounded
FExactAdd(x, y) ==
    LET e == IF x.e < y.e THEN x.e ELSE y.e
        mx == BigShl(x.m, x.e - e)
        my == BigShl(y.m, y.e - e)
    IN  IF x.neg = y.neg THEN [neg |-> x.neg, m |-> BigAdd(mx, my), e |-> e]
        ELSE IF BigLess(mx, my) THEN [neg |-> y.neg, m |-> BigSub(my, mx), e |-> e]
        ELSE [neg |-> x.neg, m |-> BigSub(mx, my), e |-> e]

\* the exact product x * y, not rounded
FExactMul(x, y) ==
    [neg |-> x.neg # y.neg,
     m |-> IF Len(x.m) < Len(y.m) THEN BigMul(y.m, x.m) ELSE BigMul(x.m, y.m),
     e |-> x.e + y.e]

FRoundExact(v) == FRound(v.neg, v.m, v.e, FALSE)

FNeg(x) == IF x.m = <<>> THEN x ELSE [x EXCEPT !.neg = ~x.neg]

FAdd(x, y) == FRoundExact(FExactAdd(x, y))
FSub(x, y) == FAdd(x, FNeg(y))
FMul(x, y) == FRoundExact(FExactMul(x, y))
\* x * y + z with a single rounding
FMA(x, y, z) == FRoundExact(FExactAdd(FExactMul(x, y), z))

\* int(x): toward zero
FToInt(x) ==
    LET mag == IF x.e >= 0 THEN BigToNat(BigShl(x.m, x.e))
               ELSE BigToNat(BigShr(x.m, -x.e))
    IN  IF x.neg THEN -mag ELSE mag

(***************************************************************************)
(* strings.TrimSpace, regexp.MatchString, strconv.Itoa                      *)
(***************************************************************************)
RECURSIVE TrimLeft(_)
TrimLeft(s) == IF s # <<>> /\ Head(s) = " " THEN TrimLeft(Tail(s)) ELSE s

RECURSIVE TrimRight(_)
TrimRight(s) ==
    IF s # <<>> /\ s[Len(s)] = " " THEN TrimRight(SubSeq(s, 1, Len(s) - 1)) ELSE s

TrimSpace(s) == TrimRight(TrimLeft(s))

\* a compiled pattern is a literal (optionally followed by ".*"): MatchString
\* is an unanchored search, so it reports whether the literal occurs in s
MatchString(re, s) ==
    \E i \in 0..(Len(s) - Len(re)) : SubSeq(s, i + 1, i + Len(re)) = re

Digit(k) == CASE k = 0 -> "0" [] k = 1 -> "1" [] k = 2 -> "2" [] k = 3 -> "3"
              [] k = 4 -> "4" [] k = 5 -> "5" [] k = 6 -> "6" [] k = 7 -> "7"
              [] k = 8 -> "8" [] k = 9 -> "9"

RECURSIVE Digits(_)
Digits(k) == IF k < 10 THEN <<Digit(k)>> ELSE Append(Digits(k \div 10), Digit(k % 10))

Itoa(k) == IF k < 0 THEN <<"-">> \o Digits(-k) ELSE Digits(k)

(***************************************************************************)
(* Configuration (configSpec) and what main() can load.                     *)
(***************************************************************************)
\* the literal set in main() before the file is read
DefaultConfig ==
    [Mode       |-> "mean",
     MinSpeed   |-> 1500,
     MaxSpeed   |-> 5000,
     HighTemp   |-> 70,
     NormalTemp |-> 40,
     Fan        |-> FanName,
     sensors    |-> <<<<"c">>>>]

\* contents a configuration file may have: yaml.Unmarshal overrides the keys
\* the file names and leaves the other defaults; main() checks none of the
\* values
ConfigFiles ==
    {DefaultConfig,
     [DefaultConfig EXCEPT !.Mode = "max"],
     [DefaultConfig EXCEPT !.Mode = "median"],
     [DefaultConfig EXCEPT !.HighTemp = 40],
     [DefaultConfig EXCEPT !.sensors = <<>>],
     [DefaultConfig EXCEPT !.Mode = "max", !.sensors = <<<<"f">>, <<"c", "0">>>>]}

\* configurations of the single-cycle specification: the ones above and more
\* bounds, speeds and pattern lists
FnConfigs ==
    ConfigFiles \cup
    {[DefaultConfig EXCEPT !.Mode = "max", !.sensors = <<>>],
     [DefaultConfig EXCEPT !.sensors = <<<<"f">>, <<"c", "0">>>>],
     [DefaultConfig EXCEPT !.HighTemp = 60, !.NormalTemp = 50, !.sensors = <<>>],
     [DefaultConfig EXCEPT !.Mode = "max", !.HighTemp = 60, !.NormalTemp = 50],
     [DefaultConfig EXCEPT !.MinSpeed = 0, !.MaxSpeed = 6200,
                           !.HighTemp = 60, !.NormalTemp = 17],
     [DefaultConfig EXCEPT !.Mode = "max", !.MinSpeed = 0, !.MaxSpeed = 6200,
                           !.HighTemp = 60, !.NormalTemp = 17],
     [DefaultConfig EXCEPT !.Mode = "max", !.MinSpeed = -6300, !.MaxSpeed = -1500,
                           !.HighTemp = 60, !.NormalTemp = -13]}

(***************************************************************************)
(* fetchValues                                                              *)
(***************************************************************************)
\* temperatures[sensorName] = value on a Go map
MapPut(m, k, v) == [x \in (DOMAIN m) \cup {k} |-> IF x = k THEN v ELSE m[x]]

EmptyMap == [x \in {} |-> 0]

\* variant: the name is compared with the fan identifier as it comes
RECURSIVE fetchLoopUntrimmed(_, _, _, _, _)
fetchLoopUntrimmed(fanName, sensorsRE, readings, temps, fan) ==
    IF readings = <<>>
    THEN [temperatures |-> temps, fanSpeed |-> fan]
    ELSE LET feature == Head(readings)
             sensorName == feature.name
         IN  IF sensorName = fanName
             THEN fetchLoopUntrimmed(fanName, sensorsRE, Tail(readings), temps, feature.value)
             ELSE IF Len(sensorsRE) # 0
                     /\ ~\E i \in 1..Len(sensorsRE) : MatchString(sensorsRE[i], sensorName)
             THEN fetchLoopUntrimmed(fanName, sensorsRE, Tail(readings), temps, fan)
             ELSE fetchLoopUntrimmed(fanName, sensorsRE, Tail(readings),
                                     MapPut(temps, sensorName, feature.value), fan)

\* variant: the patterns are asked even when there are none, so that an
\* empty list lets nothing through
RECURSIVE fetchLoopClosed(_, _, _, _, _)
fetchLoopClosed(fanName, sensorsRE, readings, temps, fan) ==
    IF readings = <<>>
    THEN [temperatures |-> temps, fanSpeed |-> fan]
    ELSE LET feature == Head(readings)
             sensorName == feature.name
         IN  IF TrimSpace(sensorName) = fanName
             THEN fetchLoopClosed(fanName, sensorsRE, Tail(readings), temps, feature.value)
             ELSE IF ~\E i \in 1..Len(sensorsRE) : MatchString(sensorsRE[i], sensorName)
             THEN fetchLoopClosed(fanName, sensorsRE, Tail(readings), temps, fan)
             ELSE fetchLoopClosed(fanName, sensorsRE, Tail(readings),
                                  MapPut(temps, sensorName, feature.value), fan)

\* variant: the fan branch leaves the loop (break) instead of going on to
\* the next feature (continue)
RECURSIVE fetchLoopStopsAtFan(_, _, _, _, _)
fetchLoopStopsAtFan(fanName, sensorsRE, readings, temps, fan) ==
    IF readings = <<>>
    THEN [temperatures |-> temps, fanSpeed |-> fan]
    ELSE LET feature == Head(readings)
             sensorName == feature.name
         IN  IF TrimSpace(sensorName) = fanName
             THEN [temperatures |-> temps, fanSpeed |-> feature.value]
             ELSE IF Len(sensorsRE) # 0
                     /\ ~\E i \in 1..Len(sensorsRE) : MatchString(sensorsRE[i], sensorName)
             THEN fetchLoopStopsAtFan(fanName, sensorsRE, Tail(readings), temps, fan)
             ELSE fetchLoopStopsAtFan(fanName, sensorsRE, Tail(readings),
                                      MapPut(temps, sensorName, feature.value), fan)

\* the loop over the features: a reading named as the fan is the fan speed,
\* any other one that passes the patterns is a temperature
RECURSIVE fetchLoop(_, _, _, _, _)
fetchLoop(fanName, sensorsRE, readings, temps, fan) ==
    IF readings = <<>>
    THEN [temperatures |-> temps, fanSpeed |-> fan]
    ELSE LET feature == Head(readings)
             sensorName == feature.name
         IN  IF TrimSpace(sensorName) = fanName
             THEN fetchLoop(fanName, sensorsRE, Tail(readings), temps, feature.value)
             ELSE IF Len(sensorsRE) # 0
                     /\ ~\E i \in 1..Len(sensorsRE) : MatchString(sensorsRE[i], sensorName)
             THEN fetchLoop(fanName, sensorsRE, Tail(readings), temps, fan)
             ELSE fetchLoop(fanName, sensorsRE, Tail(readings),
                            MapPut(temps, sensorName, feature.value), fan)

\* readings: the features of all detected chips, in enumeration order
fetchValues(fanName, sensorsRE, readings) ==
    fetchLoop(fanName, sensorsRE, readings, EmptyMap, 0)

\* every result fetchValues can return under a configuration, over all the
\* provider outputs
fetchResults ==
    [cfg \in ConfigFiles |->
        {fetchValues(cfg.Fan, cfg.sensors, readings) : readings \in ProviderOutputs}]

(***************************************************************************)
(* computeNewFanSpeed                                                       *)
(***************************************************************************)
RECURSIVE SumOver(_, _)
SumOver(values, keys) ==
    IF keys = {} THEN 0
    ELSE LET k == CHOOSE x \in keys : TRUE
         IN  values[k] + SumOver(values, keys \ {k})

\* "var max float64" starts at 0 and is raised by every larger value
RECURSIVE MaxOver(_, _, _)
MaxOver(values, keys, max) ==
    IF keys = {} THEN max
    ELSE LET k == CHOOSE x \in keys : TRUE
         IN  MaxOver(values, keys \ {k}, IF values[k] > max THEN values[k] ELSE max)

\* int(f) for a float64 f that is +Inf, -Inf or NaN is implementation-dependent:
\* amd64 yields MinInt64 for all three, arm64 saturates and maps NaN to 0
IntOfNonFinite(kind) ==
    CASE kind = "+Inf" -> {IntMin, IntMax}
      [] kind = "-Inf" -> {IntMin}
      [] kind = "NaN"  -> {IntMin, 0}

\* every value the aggregate of a snapshot can take: the mean of the values
\* of one up to all of the temperature sensors (the maximum is one of them)
RECURSIVE SumsOf(_)
SumsOf(k) == IF k = 0 THEN {0} ELSE {s + v : s \in SumsOf(k - 1), v \in FnValues}

Aggregates ==
    UNION {{Frac(s, k) : s \in SumsOf(k)} : k \in 1..Cardinality(TempNames)}

\* the numbers the return expression reads from the configuration
SpeedParams(cfg) == <<cfg.MinSpeed, cfg.MaxSpeed, cfg.HighTemp, cfg.NormalTemp>>

\* variant: the result is clamped to MinSpeed..MaxSpeed
mapSpeedClamped(p, temp) ==
    LET slope == FDivInt(p[2] - p[1], p[3] - p[4])
        off == FSub(FDivInt(temp.n, temp.d), FOfInt(p[4]))
        speed == FToInt(FAdd(FOfInt(p[1]), FMul(slope, off)))
    IN  IF p[3] - p[4] # 0
        THEN {IF speed < p[1] THEN p[1] ELSE IF speed > p[2] THEN p[2] ELSE speed}
        ELSE IntOfNonFinite("NaN")

\* variant: the offset from NormalTemp is left out of the return expression
mapSpeedNoOffset(p, temp) ==
    LET slope == FDivInt(p[2] - p[1], p[3] - p[4])
        value == FDivInt(temp.n, temp.d)
    IN  IF p[3] - p[4] # 0
        THEN {FToInt(FAdd(FOfInt(p[1]), FMul(slope, value)))}
        ELSE IntOfNonFinite("NaN")

\* the values int(float64(MinSpeed) + (float64(MaxSpeed-MinSpeed) /
\* (HighTemp - NormalTemp) * (temp - NormalTemp))) can take for
\* p = <<MinSpeed, MaxSpeed, HighTemp, NormalTemp>>.  Every operation rounds
\* to float64, except that the compiler may fuse the multiplication and the
\* addition into one operation with a single rounding (it does on arm64,
\* ppc64le, s390x, riscv64 and amd64 at GOAMD64=v3): both results are
\* given.  With a zero divisor the float is an infinity or a NaN.
mapSpeed(p, temp) ==
    LET span == p[2] - p[1]
        divisor == p[3] - p[4]
        offNum == temp.n - p[4] * temp.d
        slope == FDivInt(span, divisor)
        off == FSub(FDivInt(temp.n, temp.d), FOfInt(p[4]))
    IN  IF divisor # 0
        THEN {FToInt(FAdd(FOfInt(p[1]), FMul(slope, off))),
              FToInt(FMA(slope, off, FOfInt(p[1])))}
        ELSE IF span = 0 \/ offNum = 0 THEN IntOfNonFinite("NaN")
        ELSE IF (span > 0) = (offNum > 0) THEN IntOfNonFinite("+Inf")
        ELSE IntOfNonFinite("-Inf")

\* mapSpeed, evaluated once for every configuration and aggregate
speedTable ==
    [p \in {SpeedParams(cfg) : cfg \in FnConfigs} |->
        [temp \in Aggregates |-> mapSpeed(p, temp)]]

SpeedOf(cfg, temp) == speedTable[SpeedParams(cfg)][temp]

\* variant: an unrecognized mode is taken to be "mean" instead of an error
computeNewFanSpeedLenient(cfg, values) ==
    LET sum == SumOver(values, DOMAIN values)
        max == MaxOver(values, DOMAIN values, 0)
        temp == IF cfg.Mode = "max" THEN Frac(max, 1)
                ELSE Frac(sum, Cardinality(DOMAIN values))
    IN  [err |-> FALSE, temp |-> temp, speeds |-> SpeedOf(cfg, temp)]

\* err: the mode is unrecognized; otherwise temp is the aggregate and speeds
\* the values newFanSpeed can take.  values is non-empty.
computeNewFanSpeed(cfg, values) ==
    LET sum == SumOver(values, DOMAIN values)
        max == MaxOver(values, DOMAIN values, 0)
        temp == IF cfg.Mode = "mean" THEN Frac(sum, Cardinality(DOMAIN values))
                ELSE Frac(max, 1)
    IN  IF cfg.Mode \in {"mean", "max"}
        THEN [err |-> FALSE, temp |-> temp, speeds |-> SpeedOf(cfg, temp)]
        ELSE [err |-> TRUE, temp |-> Frac(0, 1), speeds |-> {0}]

(***************************************************************************)
(* State.                                                                   *)
(***************************************************************************)
VARIABLES
    config,           \* the configSpec main() hands to work()
    mainPc,           \* main goroutine: "main", "select", "exited", "exit1"
    sig,              \* number of signals buffered in sig (capacity 1)
    tickC,            \* number of ticks buffered in ticker.C (capacity 1)
    pc,               \* ticker goroutine: "range", "guard", "write"
    lastTemperature,  \* work(): the temperature of the last successful write
    temperatures,     \* cycle local: the snapshot fetchValues returned
    fanSpeed,         \* cycle local: the fan reading fetchValues returned
    temperature,      \* cycle local: the aggregate computeNewFanSpeed returned
    newFanSpeed,      \* cycle local: the set-point computeNewFanSpeed returned
    actuator,         \* what this process last left in config.Output
    \* history, written by the actions and read only by the properties
    cycles,           \* cycles started so far, saturating at MaxCycles
    inFlight,         \* loop bodies entered and not yet left
    computed,         \* computeNewFanSpeed in this cycle: "no", "error", "ok"
    attempts,         \* ioutil.WriteFile calls made by this cycle
    outcome,          \* how the latest cycle ended, "Running" while it runs
    prevOutcome,      \* how the cycle before it ended
    sameAsPrev,       \* this cycle's snapshot equals the previous cycle's
    lastBefore,       \* lastTemperature when this cycle started
    pendingFail,      \* temperature of the latest failed write not yet redone
    applied,          \* <<temperature, set-point>> of the latest successful
                      \* write, <<>> before the first one
    lostTick,         \* a tick was dropped because ticker.C was full
    \* input of the single-cycle specification
    provided,         \* the provider output its cycle fetches from
    \* the two-run specification
    firstRun          \* what the first of the two runs ended with, <<>> before

progVars == <<config, mainPc, sig, tickC, pc, lastTemperature, temperatures,
              fanSpeed, temperature, newFanSpeed, actuator>>
histVars == <<cycles, inFlight, computed, attempts, outcome, prevOutcome,
              sameAsPrev, lastBefore, pendingFail, applied>>
\* never changed by the actions of the program's Next
auxVars == <<provided, lostTick, firstRun>>
vars == <<progVars, histVars, auxVars>>

\* "no value" for pendingFail: not a fraction any aggregate can equal
NoValue == [n |-> 0, d |-> 0]

Init ==
    /\ config = DefaultConfig
    /\ mainPc = "main"
    /\ sig = 0
    /\ tickC = 0
    /\ pc = "range"
    /\ lastTemperature = Frac(0, 1)
    /\ temperatures = EmptyMap
    /\ fanSpeed = 0
    /\ temperature = Frac(0, 1)
    /\ newFanSpeed = 0
    /\ actuator = <<>>
    /\ cycles = 0
    /\ inFlight = 0
    /\ computed = "no"
    /\ attempts = 0
    /\ outcome = "None"
    /\ prevOutcome = "None"
    /\ sameAsPrev = FALSE
    /\ lastBefore = Frac(0, 1)
    /\ pendingFail = NoValue
    /\ applied = <<>>
    /\ lostTick = FALSE
    /\ provided = <<>>
    /\ firstRun = <<>>

(***************************************************************************)
(* main()                                                                   *)
(***************************************************************************)
\* the file cannot be read or parsed, a pattern does not compile, or the
\* interval is not a duration: os.Exit(1)
mainConfigError ==
    /\ mainPc = "main"
    /\ mainPc' = "exit1"
    /\ UNCHANGED <<auxVars, config, sig, tickC, pc, lastTemperature, temperatures,
                   fanSpeed, temperature, newFanSpeed, actuator, histVars>>

\* the file loads: work(config) creates the ticker, sets lastTemperature to
\* 0.0, starts the goroutine and blocks in the select
mainWork ==
    /\ mainPc = "main"
    /\ \E file \in ConfigFiles : config' = file
    /\ mainPc' = "select"
    /\ lastTemperature' = Frac(0, 1)
    /\ pc' = "range"
    /\ UNCHANGED <<auxVars, sig, tickC, temperatures, fanSpeed, temperature,
                   newFanSpeed, actuator, histVars>>

(***************************************************************************)
(* work(): the environment and the select loop                              *)
(***************************************************************************)
\* the runtime timer sends on ticker.C; a tick that finds the buffer full is
\* dropped by the runtime and changes nothing
Tick ==
    /\ mainPc = "select"
    /\ tickC = 0
    /\ tickC' = 1
    /\ UNCHANGED <<auxVars, config, mainPc, sig, pc, lastTemperature, temperatures,
                   fanSpeed, temperature, newFanSpeed, actuator, histVars>>

\* os.Interrupt is delivered to sig
Signal ==
    /\ mainPc = "select"
    /\ sig = 0
    /\ sig' = 1
    /\ UNCHANGED <<auxVars, config, mainPc, tickC, pc, lastTemperature, temperatures,
                   fanSpeed, temperature, newFanSpeed, actuator, histVars>>

\* case <-sig: work() returns, main() returns, the process ends and the
\* ticker goroutine ends with it wherever it is
SignalReceived ==
    /\ mainPc = "select"
    /\ sig = 1
    /\ sig' = 0
    /\ mainPc' = "exited"
    /\ UNCHANGED <<auxVars, config, tickC, pc, lastTemperature, temperatures,
                   fanSpeed, temperature, newFanSpeed, actuator, histVars>>

(***************************************************************************)
(* work(): the ticker goroutine, one loop body per received tick            *)
(***************************************************************************)
Inc(n) == IF n < MaxCycles THEN n + 1 ELSE n

\* variant: a tick is taken while a loop body is still running
FetchAnytime == TRUE

\* for range ticker.C: the goroutine receives only at the top of the loop
FetchReady == pc = "range"

\* <-ticker.C, then fetchValues returns r
FetchStep(r) ==
    /\ mainPc = "select"
    /\ FetchReady
    /\ tickC = 1
    /\ tickC' = 0
    /\ temperatures' = r.temperatures
    /\ fanSpeed' = r.fanSpeed
    /\ pc' = "guard"
    /\ cycles' = Inc(cycles)
    /\ inFlight' = inFlight + 1
    /\ computed' = "no"
    /\ attempts' = 0
    /\ prevOutcome' = outcome
    /\ outcome' = "Running"
    /\ sameAsPrev' = (cycles >= 1 /\ temperatures' = temperatures)
    /\ lastBefore' = lastTemperature
    /\ UNCHANGED <<auxVars, config, mainPc, sig, lastTemperature, temperature,
                   newFanSpeed, actuator, pendingFail, applied>>

\* a cycle on whatever the sensor provider reports
Fetch == \E r \in fetchResults[config] : FetchStep(r)

\* variant: the empty-snapshot branch lacks its continue and runs on
SkipEmptyFallsThrough ==
    /\ mainPc = "select"
    /\ pc = "guard"
    /\ DOMAIN temperatures = {}
    /\ temperature' = Frac(0, 1)
    /\ newFanSpeed' = 0
    /\ computed' = "ok"
    /\ pc' = "write"
    /\ UNCHANGED <<auxVars, config, mainPc, sig, tickC, lastTemperature, temperatures,
                   fanSpeed, actuator, cycles, inFlight, attempts, outcome,
                   prevOutcome, sameAsPrev, lastBefore, pendingFail, applied>>

\* len(temperatures) == 0: message, continue
SkipEmpty ==
    /\ mainPc = "select"
    /\ pc = "guard"
    /\ DOMAIN temperatures = {}
    /\ pc' = "range"
    /\ outcome' = "SkipEmpty"
    /\ inFlight' = inFlight - 1
    /\ UNCHANGED <<auxVars, config, mainPc, sig, tickC, lastTemperature,
                   temperatures, fanSpeed, temperature, newFanSpeed, actuator,
                   cycles, computed, attempts, prevOutcome, sameAsPrev,
                   lastBefore, pendingFail, applied>>

\* variant: the error branch returns from the goroutine instead of continuing
FailModeReturns ==
    /\ mainPc = "select"
    /\ pc = "guard"
    /\ DOMAIN temperatures # {}
    /\ LET r == computeNewFanSpeed(config, temperatures)
       IN  /\ r.err
           /\ temperature' = r.temp
           /\ newFanSpeed' \in r.speeds
    /\ computed' = "error"
    /\ pc' = "returned"
    /\ outcome' = "FailMode"
    /\ inFlight' = inFlight - 1
    /\ UNCHANGED <<auxVars, config, mainPc, sig, tickC, lastTemperature, temperatures,
                   fanSpeed, actuator, cycles, attempts, prevOutcome,
                   sameAsPrev, lastBefore, pendingFail, applied>>

\* computeNewFanSpeed returns an error: message, continue
FailMode ==
    /\ mainPc = "select"
    /\ pc = "guard"
    /\ DOMAIN temperatures # {}
    /\ LET r == computeNewFanSpeed(config, temperatures)
       IN  /\ r.err
           /\ temperature' = r.temp
           /\ newFanSpeed' \in r.speeds
    /\ computed' = "error"
    /\ pc' = "range"
    /\ outcome' = "FailMode"
    /\ inFlight' = inFlight - 1
    /\ UNCHANGED <<auxVars, config, mainPc, sig, tickC, lastTemperature, temperatures,
                   fanSpeed, actuator, cycles, attempts, prevOutcome,
                   sameAsPrev, lastBefore, pendingFail, applied>>

\* temperature == lastTemperature: continue
SkipUnchanged ==
    /\ mainPc = "select"
    /\ pc = "guard"
    /\ DOMAIN temperatures # {}
    /\ LET r == computeNewFanSpeed(config, temperatures)
       IN  /\ ~r.err
           /\ r.temp = lastTemperature
           /\ temperature' = r.temp
           /\ newFanSpeed' \in r.speeds
    /\ computed' = "ok"
    /\ pc' = "range"
    /\ outcome' = "SkipSame"
    /\ inFlight' = inFlight - 1
    /\ UNCHANGED <<auxVars, config, mainPc, sig, tickC, lastTemperature, temperatures,
                   fanSpeed, actuator, cycles, attempts, prevOutcome,
                   sameAsPrev, lastBefore, pendingFail, applied>>

\* variant: the equality guard is missing, every computed cycle writes
ProceedAlways ==
    /\ mainPc = "select"
    /\ pc = "guard"
    /\ DOMAIN temperatures # {}
    /\ LET r == computeNewFanSpeed(config, temperatures)
       IN  /\ ~r.err
           /\ temperature' = r.temp
           /\ newFanSpeed' \in r.speeds
    /\ computed' = "ok"
    /\ pc' = "write"
    /\ UNCHANGED <<auxVars, config, mainPc, sig, tickC, lastTemperature, temperatures,
                   fanSpeed, actuator, cycles, inFlight, attempts, outcome,
                   prevOutcome, sameAsPrev, lastBefore, pendingFail, applied>>

\* variant: lastTemperature is recorded before the write instead of after it
ProceedUpdatesFirst ==
    /\ mainPc = "select"
    /\ pc = "guard"
    /\ DOMAIN temperatures # {}
    /\ LET r == computeNewFanSpeed(config, temperatures)
       IN  /\ ~r.err
           /\ r.temp # lastTemperature
           /\ temperature' = r.temp
           /\ lastTemperature' = r.temp
           /\ newFanSpeed' \in r.speeds
    /\ computed' = "ok"
    /\ pc' = "write"
    /\ UNCHANGED <<auxVars, config, mainPc, sig, tickC, temperatures,
                   fanSpeed, actuator, cycles, inFlight, attempts, outcome,
                   prevOutcome, sameAsPrev, lastBefore, pendingFail, applied>>

\* temperature differs from lastTemperature: go on to ioutil.WriteFile
Proceed ==
    /\ mainPc = "select"
    /\ pc = "guard"
    /\ DOMAIN temperatures # {}
    /\ LET r == computeNewFanSpeed(config, temperatures)
       IN  /\ ~r.err
           /\ r.temp # lastTemperature
           /\ temperature' = r.temp
           /\ newFanSpeed' \in r.speeds
    /\ computed' = "ok"
    /\ pc' = "write"
    /\ UNCHANGED <<auxVars, config, mainPc, sig, tickC, lastTemperature, temperatures,
                   fanSpeed, actuator, cycles, inFlight, attempts, outcome,
                   prevOutcome, sameAsPrev, lastBefore, pendingFail, applied>>

\* variant: the successful write leaves lastTemperature as it was
WriteOkForgets ==
    /\ mainPc = "select"
    /\ pc = "write"
    /\ actuator' = Itoa(newFanSpeed)
    /\ applied' = <<temperature, newFanSpeed>>
    /\ attempts' = attempts + 1
    /\ pendingFail' = IF pendingFail = temperature THEN NoValue ELSE pendingFail
    /\ pc' = "range"
    /\ outcome' = "Success"
    /\ inFlight' = inFlight - 1
    /\ UNCHANGED <<auxVars, config, mainPc, sig, tickC, lastTemperature,
                   temperatures, fanSpeed,
                   temperature, newFanSpeed, cycles, computed, prevOutcome,
                   sameAsPrev, lastBefore>>

\* ioutil.WriteFile succeeds: log line, lastTemperature = temperature
WriteOk ==
    /\ mainPc = "select"
    /\ pc = "write"
    /\ actuator' = Itoa(newFanSpeed)
    /\ lastTemperature' = temperature
    /\ applied' = <<temperature, newFanSpeed>>
    /\ attempts' = attempts + 1
    /\ pendingFail' = IF pendingFail = temperature THEN NoValue ELSE pendingFail
    /\ pc' = "range"
    /\ outcome' = "Success"
    /\ inFlight' = inFlight - 1
    /\ UNCHANGED <<auxVars, config, mainPc, sig, tickC, temperatures, fanSpeed,
                   temperature, newFanSpeed, cycles, computed, prevOutcome,
                   sameAsPrev, lastBefore>>

\* variant: the failure branch records the temperature all the same
WriteFailUpdates ==
    /\ mainPc = "select"
    /\ pc = "write"
    /\ actuator' \in {actuator, <<>>}
    /\ lastTemperature' = temperature
    /\ attempts' = attempts + 1
    /\ pendingFail' = temperature
    /\ pc' = "range"
    /\ outcome' = "FailWrite"
    /\ inFlight' = inFlight - 1
    /\ UNCHANGED <<auxVars, config, mainPc, sig, tickC, temperatures,
                   fanSpeed, temperature, newFanSpeed, cycles, computed,
                   prevOutcome, sameAsPrev, lastBefore, applied>>

\* ioutil.WriteFile fails, at the open (file untouched) or at the write (file
\* already truncated): message, continue
WriteFail ==
    /\ mainPc = "select"
    /\ pc = "write"
    /\ actuator' \in {actuator, <<>>}
    /\ attempts' = attempts + 1
    /\ pendingFail' = temperature
    /\ pc' = "range"
    /\ outcome' = "FailWrite"
    /\ inFlight' = inFlight - 1
    /\ UNCHANGED <<auxVars, config, mainPc, sig, tickC, lastTemperature, temperatures,
                   fanSpeed, temperature, newFanSpeed, cycles, computed,
                   prevOutcome, sameAsPrev, lastBefore, applied>>

Next ==
    \/ mainConfigError
    \/ mainWork
    \/ Tick
    \/ Signal
    \/ SignalReceived
    \/ Fetch
    \/ SkipEmpty
    \/ FailMode
    \/ SkipUnchanged
    \/ Proceed
    \/ WriteOk
    \/ WriteFail

Spec == Init /\ [][Next]_vars

(***************************************************************************)
(* The ticker with its dropped ticks counted.                               *)
(***************************************************************************)
\* variant: the tick that does not fit pushes out the one that was held
TickDroppedClears ==
    /\ mainPc = "select"
    /\ tickC = 1
    /\ tickC' = 0
    /\ lostTick' = TRUE
    /\ UNCHANGED <<config, mainPc, sig, pc, lastTemperature, temperatures,
                   fanSpeed, temperature, newFanSpeed, actuator, histVars,
                   provided, firstRun>>

\* the runtime timer fires while ticker.C still holds a tick: the send does
\* not block, the tick is dropped
TickDropped ==
    /\ mainPc = "select"
    /\ tickC = 1
    /\ lostTick' = TRUE
    /\ UNCHANGED <<progVars, histVars, provided, firstRun>>

TickNext == Next \/ TickDropped

TickSpec == Init /\ [][TickNext]_vars

\* the Go scheduler keeps running the ticker goroutine
TickFairSpec ==
    /\ TickSpec
    /\ WF_vars(Fetch)
    /\ WF_vars(SkipEmpty \/ FailMode \/ SkipUnchanged \/ Proceed)
    /\ WF_vars(WriteOk \/ WriteFail)

(***************************************************************************)
(* One cycle, from a given configuration and provider output.               *)
(***************************************************************************)
\* work() has started with some configuration and the first tick is in
\* ticker.C
FnInit ==
    /\ config \in FnConfigs
    /\ provided \in FnOutputs
    /\ mainPc = "select"
    /\ sig = 0
    /\ tickC = 1
    /\ pc = "range"
    /\ lastTemperature = Frac(0, 1)
    /\ temperatures = EmptyMap
    /\ fanSpeed = 0
    /\ temperature = Frac(0, 1)
    /\ newFanSpeed = 0
    /\ actuator = <<>>
    /\ cycles = 0
    /\ inFlight = 0
    /\ computed = "no"
    /\ attempts = 0
    /\ outcome = "None"
    /\ prevOutcome = "None"
    /\ sameAsPrev = FALSE
    /\ lastBefore = Frac(0, 1)
    /\ pendingFail = NoValue
    /\ applied = <<>>
    /\ lostTick = FALSE
    /\ firstRun = <<>>

\* <-ticker.C, then fetchValues on the provider output under examination
FnFetch == FetchStep(fetchValues(config.Fan, config.sensors, provided))

FnNext ==
    \/ FnFetch
    \/ SkipEmpty
    \/ FailMode
    \/ SkipUnchanged
    \/ Proceed
    \/ WriteOk
    \/ WriteFail

FnSpec == FnInit /\ [][FnNext]_vars

(***************************************************************************)
(* Two runs side by side.  Both are given the same configuration and, cycle *)
(* by cycle, provider outputs that differ in the fan readings only.  The    *)
(* first run makes a cycle, then the second run makes the same cycle from   *)
(* the state the first one started it in; the cycle after it starts from    *)
(* the state the second run has reached.                                    *)
(***************************************************************************)
TwinConfigs ==
    {DefaultConfig,
     [DefaultConfig EXCEPT !.Mode = "median"],
     [DefaultConfig EXCEPT !.sensors = <<>>]}

\* the first run sees one sensor and the fan; the second run's fan may
\* report under its padded name and with another value
TwinFirstReading == [name : {Core0}, value : SensorValues]
                        \cup [name : {FanName}, value : FanValues]
TwinReading == TwinFirstReading \cup [name : {FanNamePadded}, value : {3000}]
TwinFirstOutputs == SeqsUpTo(TwinFirstReading, MaxReadings)
TwinOutputs == SeqsUpTo(TwinReading, MaxReadings)

\* the readings of a provider output that line 142 does not take for the fan
RECURSIVE NonFanPart(_, _)
NonFanPart(fanName, output) ==
    IF output = <<>> THEN <<>>
    ELSE IF TrimSpace(Head(output).name) = fanName
         THEN NonFanPart(fanName, Tail(output))
         ELSE <<Head(output)>> \o NonFanPart(fanName, Tail(output))

\* what a run has in its variables between two cycles
CycleState ==
    [lastTemperature |-> lastTemperature, temperatures |-> temperatures,
     fanSpeed |-> fanSpeed, temperature |-> temperature,
     newFanSpeed |-> newFanSpeed, actuator |-> actuator, cycles |-> cycles,
     computed |-> computed, attempts |-> attempts, outcome |-> outcome,
     prevOutcome |-> prevOutcome, sameAsPrev |-> sameAsPrev,
     lastBefore |-> lastBefore, pendingFail |-> pendingFail,
     applied |-> applied]

TwinInit ==
    /\ config \in TwinConfigs
    /\ provided \in TwinFirstOutputs
    /\ mainPc = "select"
    /\ sig = 0
    /\ tickC = 1
    /\ pc = "range"
    /\ lastTemperature = Frac(0, 1)
    /\ temperatures = EmptyMap
    /\ fanSpeed = 0
    /\ temperature = Frac(0, 1)
    /\ newFanSpeed = 0
    /\ actuator = <<>>
    /\ cycles = 0
    /\ inFlight = 0
    /\ computed = "no"
    /\ attempts = 0
    /\ outcome = "None"
    /\ prevOutcome = "None"
    /\ sameAsPrev = FALSE
    /\ lastBefore = Frac(0, 1)
    /\ pendingFail = NoValue
    /\ applied = <<>>
    /\ lostTick = FALSE
    /\ firstRun = [done |-> FALSE, later |-> FALSE, start |-> CycleState]

\* the first run has ended its cycle: what it ended with is kept, and the
\* second run is put where the first one was when the cycle started, with a
\* tick and a provider output that has the same readings but for the fan's
Rerun ==
    /\ ~firstRun.done
    /\ pc = "range"
    /\ outcome # "Running"
    /\ cycles # firstRun.start.cycles
    /\ firstRun' = [done |-> TRUE, later |-> firstRun.later,
                    start |-> firstRun.start, end |-> CycleState]
    /\ \E output \in TwinOutputs :
          /\ output # provided
          /\ NonFanPart(config.Fan, output) = NonFanPart(config.Fan, provided)
          /\ provided' = output
    /\ tickC' = 1
    /\ lastTemperature' = firstRun.start.lastTemperature
    /\ temperatures' = firstRun.start.temperatures
    /\ fanSpeed' = firstRun.start.fanSpeed
    /\ temperature' = firstRun.start.temperature
    /\ newFanSpeed' = firstRun.start.newFanSpeed
    /\ actuator' = firstRun.start.actuator
    /\ cycles' = firstRun.start.cycles
    /\ computed' = firstRun.start.computed
    /\ attempts' = firstRun.start.attempts
    /\ outcome' = firstRun.start.outcome
    /\ prevOutcome' = firstRun.start.prevOutcome
    /\ sameAsPrev' = firstRun.start.sameAsPrev
    /\ lastBefore' = firstRun.start.lastBefore
    /\ pendingFail' = firstRun.start.pendingFail
    /\ applied' = firstRun.start.applied
    /\ UNCHANGED <<config, mainPc, sig, pc, inFlight, lostTick>>

\* both runs have ended the first cycle: the timer fires, and the first run
\* goes on to the next cycle from where the second run stands
NextCycle ==
    /\ firstRun.done
    /\ ~firstRun.later
    /\ pc = "range"
    /\ cycles # firstRun.start.cycles
    /\ tickC = 0
    /\ tickC' = 1
    /\ provided' \in TwinFirstOutputs
    /\ firstRun' = [done |-> FALSE, later |-> TRUE, start |-> CycleState]
    /\ UNCHANGED <<config, mainPc, sig, pc, lastTemperature, temperatures,
                   fanSpeed, temperature, newFanSpeed, actuator, histVars,
                   lostTick>>

TwinNext ==
    \/ FnFetch
    \/ SkipEmpty
    \/ FailMode
    \/ SkipUnchanged
    \/ Proceed
    \/ WriteOk
    \/ WriteFail
    \/ Rerun
    \/ NextCycle

TwinSpec == TwinInit /\ [][TwinNext]_vars

\* the runtime timer keeps firing and the Go scheduler keeps running the
\* ticker goroutine; sensor reads and file writes return
FairSpec ==
    /\ Spec
    /\ WF_vars(Tick)
    /\ WF_vars(Fetch)
    /\ WF_vars(SkipEmpty \/ FailMode \/ SkipUnchanged \/ Proceed)
    /\ WF_vars(WriteOk \/ WriteFail)

(***************************************************************************)
(* Properties.                                                              *)
(***************************************************************************)
ValidMode == config.Mode \in {"mean", "max"}
NonEmpty == DOMAIN temperatures # {}
\* the latest cycle has reached the end of the loop body
Ended == outcome \in {"SkipEmpty", "FailMode", "SkipSame", "Success", "FailWrite"}
SkipOrFail == outcome \in {"SkipEmpty", "FailMode", "SkipSame", "FailWrite"}
Sentinel == Frac(0, 1)

\* C1: the first two cycles of a run, given the same non-empty snapshot, a
\* valid mode and no write failure, perform exactly one actuator write: the
\* first cycle writes and the second is skipped as unchanged.
C1_TwoCyclesOneWrite ==
    (/\ cycles = 2
     /\ Ended
     /\ sameAsPrev
     /\ NonEmpty
     /\ ValidMode
     /\ outcome # "FailWrite"
     /\ prevOutcome # "FailWrite")
    => (prevOutcome = "Success" /\ outcome = "SkipSame")

\* C2: a cycle that ended in a write failure has left lastTemperature as it
\* was when the cycle started.
C2_FailedWriteKeepsLast ==
    outcome = "FailWrite" => lastTemperature = lastBefore

\* a write failed in a cycle that started with an applied temperature
C2_Witness ==
    outcome = "FailWrite" /\ lastBefore # Sentinel /\ temperature # lastBefore

\* C3: while the write for a temperature v has failed and not been redone,
\* lastTemperature is not v, and no cycle that aggregates to v is skipped as
\* unchanged: each such cycle goes to the write again, until one succeeds.
C3_RetryAfterFailedWrite ==
    /\ pendingFail # NoValue => lastTemperature # pendingFail
    /\ outcome = "SkipSame" => temperature # pendingFail
    /\ (Ended /\ computed = "ok" /\ temperature = pendingFail) => attempts = 1

\* the cycle after a failed write saw the same snapshot, wrote again and
\* failed again
C3_Witness ==
    /\ prevOutcome = "FailWrite"
    /\ sameAsPrev
    /\ outcome = "FailWrite"
    /\ attempts = 1
    /\ pendingFail = temperature

\* C4: with a mode other than "mean" and "max" the process stops at load
\* time: work() is never entered and no cycle runs.
C4_InvalidModeRejected ==
    ~ValidMode => (mainPc \in {"main", "exit1"} /\ cycles = 0)

\* C5: with highTemp = normalTemp the process stops at load time and the
\* speed mapping is never evaluated.
C5_ZeroDivisorRejected ==
    config.HighTemp = config.NormalTemp
        => (mainPc \in {"main", "exit1"} /\ computed # "ok")

\* C6: when the process has ended on the interrupt signal, no cycle was cut
\* off between its fetch and its end: the ticker goroutine is at the top of
\* its loop.
C6_InFlightCycleFinishes ==
    mainPc = "exited" => pc = "range"

\* C7: at most one loop body is running at any time, also while a tick is
\* waiting in ticker.C.
C7_NoConcurrentCycles ==
    /\ inFlight \in {0, 1}
    /\ inFlight = 1 <=> pc # "range"

\* a tick is buffered while a cycle is about to write
C7_Witness ==
    tickC = 1 /\ pc = "write" /\ inFlight = 1

\* C8: a cycle that ended as a skip or a failure leaves the goroutine at the
\* top of its loop, and unless the process ends on the signal another cycle
\* starts; the work loop is left only on a received signal.
C8_SkipFailNonFatal ==
    /\ [](SkipOrFail => pc = "range")
    /\ [][(mainPc = "select" /\ mainPc' # "select") => sig = 1]_vars
    /\ (SkipOrFail /\ mainPc = "select") ~> (outcome = "Running" \/ mainPc = "exited")

\* a cycle has started right after a cycle that was skipped or failed
C8_Witness ==
    /\ outcome = "Running"
    /\ prevOutcome \in {"SkipEmpty", "FailMode", "SkipSame", "FailWrite"}

\* C9: a cycle whose snapshot is empty ends as a skip without calling
\* computeNewFanSpeed, without writing, and with lastTemperature untouched.
C9_EmptySnapshotSkips ==
    (cycles > 0 /\ ~NonEmpty)
    => /\ outcome \in {"Running", "SkipEmpty"}
       /\ pc \in {"guard", "range"}
       /\ computed = "no"
       /\ attempts = 0
       /\ lastTemperature = lastBefore

\* an empty snapshot was skipped after a temperature had been applied
C9_Witness ==
    outcome = "SkipEmpty" /\ lastBefore # Sentinel

\* C10: a finished cycle whose aggregate equals the lastTemperature it started
\* with made no write and left lastTemperature alone; a finished cycle with
\* a valid mode and a non-empty snapshot whose aggregate differs made exactly
\* one write.
C10_EqualityGuard ==
    /\ (Ended /\ NonEmpty /\ ValidMode) => computed = "ok"
    /\ (Ended /\ computed = "ok" /\ temperature = lastBefore)
        => (attempts = 0 /\ lastTemperature = lastBefore /\ outcome = "SkipSame")
    /\ (Ended /\ computed = "ok" /\ temperature # lastBefore)
        => (attempts = 1 /\ outcome \in {"Success", "FailWrite"})

\* an unchanged cycle was skipped with an applied temperature, right after
\* the cycle that applied it
C10_Witness ==
    /\ outcome = "SkipSame"
    /\ prevOutcome = "Success"
    /\ lastBefore # Sentinel
    /\ attempts = 0

\* the composed name, trimmed, is the configured fan identifier
FanIdentified(name) == TrimSpace(name) = config.Fan
\* some configured pattern matches the composed name
Matches(name) ==
    \E i \in 1..Len(config.sensors) : MatchString(config.sensors[i], name)
\* the single cycle has fetched its snapshot
Fetched == cycles > 0

\* C11: no key of the snapshot is a name that, trimmed, equals the fan
\* identifier, and no reading with such a name is in the snapshot, whatever
\* the patterns match.
C11_FanNeverInSnapshot ==
    /\ \A name \in DOMAIN temperatures : ~FanIdentified(name)
    /\ \A i \in 1..Len(provided) :
          FanIdentified(provided[i].name)
              => provided[i].name \notin DOMAIN temperatures

\* a padded fan reading that a pattern matches was fetched together with a
\* temperature and was taken as the fan speed
C11_Witness ==
    /\ Fetched
    /\ NonEmpty
    /\ fanSpeed = 2000
    /\ \E i \in 1..Len(provided) :
          /\ provided[i].name = FanNamePadded
          /\ FanIdentified(provided[i].name)
          /\ Matches(provided[i].name)

\* positions in the provider output of the readings not identified as the fan
NonFan == {i \in 1..Len(provided) : ~FanIdentified(provided[i].name)}

\* C12: after the fetch, a reading that is not the fan is in the snapshot
\* if and only if there are no patterns or some pattern matches its name;
\* every entry of the snapshot is the last such reading of its name; and
\* with no patterns the snapshot holds exactly the non-fan readings.
C12_FilterPolicy ==
    Fetched =>
        /\ \A i \in NonFan :
              provided[i].name \in DOMAIN temperatures
                  <=> (Len(config.sensors) = 0 \/ Matches(provided[i].name))
        /\ \A name \in DOMAIN temperatures :
              \E i \in NonFan :
                  /\ provided[i].name = name
                  /\ provided[i].value = temperatures[name]
                  /\ \A j \in (i + 1)..Len(provided) : provided[j].name # name
        /\ Len(config.sensors) = 0
              => DOMAIN temperatures = {provided[i].name : i \in NonFan}

\* with patterns configured, one reading passed them and another one, not
\* the fan, did not
C12_Witness ==
    /\ Fetched
    /\ Len(config.sensors) # 0
    /\ \E i, j \in NonFan :
          /\ provided[i].name \in DOMAIN temperatures
          /\ provided[j].name \notin DOMAIN temperatures

\* the largest value of a non-empty snapshot
MaxElement(values) ==
    CHOOSE v \in {values[k] : k \in DOMAIN values} :
        \A k \in DOMAIN values : values[k] <= v

\* C13: in mode "max" the aggregate computeNewFanSpeed returned for the
\* cycle's non-empty snapshot is the largest value of the snapshot.
C13_MaxIsMaximum ==
    (computed = "ok" /\ config.Mode = "max")
        => temperature = Frac(MaxElement(temperatures), 1)

\* MinSpeed + (MaxSpeed - MinSpeed) / (HighTemp - NormalTemp) * (temp -
\* NormalTemp) in exact arithmetic, as the fraction ExactNum / ExactDen; the
\* denominator is positive when HighTemp > NormalTemp
ExactNum(cfg, temp) ==
    cfg.MinSpeed * (cfg.HighTemp - cfg.NormalTemp) * temp.d
        + (cfg.MaxSpeed - cfg.MinSpeed) * (temp.n - cfg.NormalTemp * temp.d)
ExactDen(cfg, temp) == (cfg.HighTemp - cfg.NormalTemp) * temp.d
ExactSpeed == Trunc(ExactNum(config, temperature), ExactDen(config, temperature))
\* the exact value lies within float64 rounding error of an integer: for
\* the fractions of this model, whose denominators are small, that is the
\* case only when it is an integer
ExactIsInteger == ExactNum(config, temperature) % ExactDen(config, temperature) = 0
\* computeNewFanSpeed has returned a set-point under HighTemp > NormalTemp
Mapped == computed = "ok" /\ config.HighTemp > config.NormalTemp
\* the snapshot of the example: two sensors, reading 50 and 60
ExampleSnapshot ==
    /\ config = DefaultConfig
    /\ DOMAIN temperatures = TempNames
    /\ {temperatures[k] : k \in TempNames} = {50, 60}

\* C14 as stated: the set-point is the exact value of the line truncated
\* toward zero; it is MinSpeed at NormalTemp and MaxSpeed at HighTemp; the
\* example gives the aggregate 55 and the set-point 3250.
C14_SetPointIsTruncatedLine ==
    Mapped =>
        /\ newFanSpeed = ExactSpeed
        /\ temperature = Frac(config.NormalTemp, 1) => newFanSpeed = config.MinSpeed
        /\ temperature = Frac(config.HighTemp, 1) => newFanSpeed = config.MaxSpeed
        /\ ExampleSnapshot => (temperature = Frac(55, 1) /\ newFanSpeed = 3250)

\* C14, amended: the set-point is the exact value of the line truncated
\* toward zero, or, when that exact value is within rounding error of an
\* integer k, k or the integer next to k toward zero; it is MinSpeed at
\* NormalTemp; the example gives the aggregate 55 and the set-point 3250.
C14_SetPointWithinRounding ==
    Mapped =>
        /\ \/ newFanSpeed = ExactSpeed
           \/ /\ ExactIsInteger
              /\ ExactSpeed > 0
              /\ newFanSpeed = ExactSpeed - 1
           \/ /\ ExactIsInteger
              /\ ExactSpeed < 0
              /\ newFanSpeed = ExactSpeed + 1
        /\ temperature = Frac(config.NormalTemp, 1) => newFanSpeed = config.MinSpeed
        /\ ExampleSnapshot => (temperature = Frac(55, 1) /\ newFanSpeed = 3250)

\* at HighTemp the float64 product fell short of the span and the set-point
\* came out one unit under MaxSpeed
C14_Witness ==
    /\ Mapped
    /\ temperature = Frac(config.HighTemp, 1)
    /\ config.MaxSpeed > 0
    /\ newFanSpeed = config.MaxSpeed - 1

\* C15: lastTemperature is the sentinel as long as no write has succeeded
\* and the temperature of the latest successful write afterwards; a step
\* changes it only by ending a cycle with a successful write; and when a
\* cycle has ended with a successful write, the output holds the set-point
\* computeNewFanSpeed maps lastTemperature to.
C15_LastAppliedTracksWrites ==
    /\ [](/\ applied = <<>> => lastTemperature = Sentinel
          /\ applied # <<>> => lastTemperature = applied[1]
          /\ outcome = "Success"
                => /\ actuator = Itoa(applied[2])
                   /\ applied[2] \in SpeedOf(config, lastTemperature))
    /\ [][lastTemperature' # lastTemperature
            => (pc = "write" /\ outcome' = "Success" /\ attempts' = 1)]_vars

\* a second successful write has replaced the temperature of an earlier one
C15_Witness ==
    /\ outcome = "Success"
    /\ lastBefore # Sentinel
    /\ lastTemperature # lastBefore
    /\ lastTemperature # Sentinel

\* C16: a cycle goes to the write only with a set-point that differs from
\* the set-point of the latest successful write, and the first cycle of a
\* run, given a non-empty snapshot and a valid mode, makes a write.
C16_WriteOnlyOnChange ==
    /\ pc = "write" => (applied = <<>> \/ applied[2] # newFanSpeed)
    /\ (cycles = 1 /\ Ended /\ NonEmpty /\ ValidMode) => attempts = 1

\* this step starts a cycle
CycleStarts == outcome # "Running" /\ outcome' = "Running"

\* C17 as stated: every tick that fires starts a cycle, none is lost.
C17_NoTickLost == ~lostTick

\* C17, amended: ticker.C holds at most one tick; a tick that fires while
\* it is empty is held, also while a cycle is running; a cycle starts only
\* by taking the held tick, and the held tick leaves ticker.C only by
\* starting a cycle, which it eventually does unless the process ends; a
\* tick is dropped only while another one is held, and starts no cycle.
C17_OneCyclePerHeldTick ==
    /\ [](tickC \in {0, 1})
    /\ [][CycleStarts => (tickC = 1 /\ tickC' = 0 /\ pc = "range")]_vars
    /\ [][tickC' < tickC => CycleStarts]_vars
    /\ [][(lostTick' /\ ~lostTick)
            => (tickC = 1 /\ tickC' = 1 /\ ~CycleStarts /\ UNCHANGED progVars)]_vars
    /\ (tickC = 1 /\ mainPc = "select") ~> (tickC = 0 \/ mainPc = "exited")

\* a tick was dropped, and the tick that was held has started the second
\* cycle
C17_Witness ==
    /\ lostTick
    /\ cycles = 2
    /\ outcome = "Running"
    /\ tickC = 0

\* C18: with a mode other than "mean" and "max", a cycle that has a
\* non-empty snapshot ends as a failure of computeNewFanSpeed; no cycle
\* reaches the write, nothing is written to the output and lastTemperature
\* stays as it was.
C18_InvalidModeNeverWrites ==
    ~ValidMode =>
        /\ (Ended /\ NonEmpty) => (outcome = "FailMode" /\ computed = "error")
        /\ outcome \in {"None", "Running", "SkipEmpty", "FailMode"}
        /\ pc # "write"
        /\ attempts = 0
        /\ actuator = <<>>
        /\ applied = <<>>
        /\ lastTemperature = lastBefore
        /\ lastTemperature = Sentinel

\* under an invalid mode a second cycle in a row has failed in
\* computeNewFanSpeed
C18_Witness ==
    /\ ~ValidMode
    /\ outcome = "FailMode"
    /\ prevOutcome = "FailMode"
    /\ NonEmpty

\* the aggregate lies in [NormalTemp, HighTemp]
InRange ==
    /\ config.NormalTemp * temperature.d <= temperature.n
    /\ temperature.n <= config.HighTemp * temperature.d
WithinSpeeds == config.MinSpeed <= newFanSpeed /\ newFanSpeed <= config.MaxSpeed

\* C19 as stated: with MinSpeed <= MaxSpeed and HighTemp > NormalTemp, an
\* aggregate in [NormalTemp, HighTemp] gives a set-point in
\* [MinSpeed, MaxSpeed].
C19_InRangeIsBounded ==
    (Mapped /\ config.MinSpeed <= config.MaxSpeed /\ InRange) => WithinSpeeds

\* C19, amended: with MinSpeed <= MaxSpeed, MaxSpeed >= 0 and HighTemp >
\* NormalTemp, an aggregate in [NormalTemp, HighTemp] gives a set-point in
\* [MinSpeed, MaxSpeed]; an aggregate for which the exact line lies more
\* than a unit outside [MinSpeed, MaxSpeed] gives a set-point outside it; and
\* a successful write leaves the set-point in the output as computed.
C19_InRangeIsBoundedNoClamp ==
    /\ (Mapped /\ config.MinSpeed <= config.MaxSpeed /\ config.MaxSpeed >= 0
            /\ InRange) => WithinSpeeds
    /\ (Mapped /\ (ExactSpeed < config.MinSpeed - 1 \/ ExactSpeed > config.MaxSpeed + 1))
            => ~WithinSpeeds
    /\ (Mapped /\ outcome = "Success")
            => (actuator = Itoa(newFanSpeed) /\ applied[2] = newFanSpeed)

\* an aggregate below NormalTemp gave a negative set-point under
\* non-negative speeds, and it was written to the output with its sign
C19_Witness ==
    /\ Mapped
    /\ outcome = "Success"
    /\ ~InRange
    /\ 0 <= config.MinSpeed
    /\ config.MinSpeed <= config.MaxSpeed
    /\ newFanSpeed < 0
    /\ actuator = Itoa(newFanSpeed)
    /\ Head(actuator) = "-"

\* both runs have ended the cycle under examination
BothEnded ==
    /\ firstRun # <<>>
    /\ firstRun.done
    /\ pc = "range"
    /\ cycles # firstRun.start.cycles
\* the writes the two runs attempted in it had the same outcome
SameWriteOutcome == (outcome = "FailWrite") <=> (firstRun.end.outcome = "FailWrite")

\* C20: two runs from the same configuration whose provider outputs differ
\* in the fan readings only, and whose writes succeed or fail alike, end
\* each cycle with the same snapshot, the same aggregate and set-point, the
\* same number of writes, the same content of the output and the same
\* lastTemperature.
C20_FanReadingIsIgnored ==
    (BothEnded /\ SameWriteOutcome) =>
        /\ temperatures = firstRun.end.temperatures
        /\ computed = firstRun.end.computed
        /\ temperature = firstRun.end.temperature
        /\ newFanSpeed = firstRun.end.newFanSpeed
        /\ attempts = firstRun.end.attempts
        /\ outcome = firstRun.end.outcome
        /\ applied = firstRun.end.applied
        /\ (outcome = "Success" => actuator = firstRun.end.actuator)
        /\ lastTemperature = firstRun.end.lastTemperature

\* in a cycle that started with an applied temperature both runs wrote, the
\* first without a fan reading and the second with one
C20_Witness ==
    /\ BothEnded
    /\ firstRun.later
    /\ firstRun.start.lastTemperature # Sentinel
    /\ outcome = "Success"
    /\ firstRun.end.outcome = "Success"
    /\ firstRun.end.fanSpeed = 0
    /\ fanSpeed # 0

====
